---- MODULE Spec2Model ----
(***************************************************************************)
(* Model of aten/src/ATen/native/cuda/Embedding.cu:                        *)
(*   embedding_backward_cuda  (host) with its two kernels                  *)
(*     embedding_backward_feature_kernel  and  embedding_backward_kernel,  *)
(*   embedding_renorm_cuda_   (host) with renorm_kernel.                   *)
(*                                                                         *)
(* A warp is one process (its lanes run in lockstep); warps of a block     *)
(* meet at __syncthreads; blocks never synchronise.  Array positions are   *)
(* 0-based as in the source.  A memory cell is <<v>> when it holds the     *)
(* value v and <<>> when its content is indeterminate (never written).     *)
(* Floating-point numbers are modelled exactly, in fixed point with ONE    *)
(* standing for 1.0.                                                       *)
(***************************************************************************)
EXTENDS Integers, Sequences, FiniteSets, TLC

(***************************************************************************)
(* Program constants.  WARP_SIZE and BLOCKDIMY are 32 in the source and    *)
(* DIRECT_MAX (the dispatch threshold of line 222) is 768; they are scaled *)
(* down together, keeping BLOCKDIMY = WARP_SIZE and the threshold above    *)
(* one chunk and below one batch of WARP_SIZE*BLOCKDIMY indices.           *)
(***************************************************************************)
WARP_SIZE == 3
BLOCKDIMY == 3
DIRECT_MAX == 4
SZ == 4
SORT_WARPS == 4

(***************************************************************************)
(* MaxN bounds the length of the Index List of embedding_backward_cuda;    *)
(* NumWeights is its num_weights argument, the number of rows of the       *)
(* tables.                                                                 *)
(***************************************************************************)
MaxN == 5
NumWeights == 2

Lanes == 0 .. (WARP_SIZE - 1)
Warps == 0 .. (BLOCKDIMY - 1)
BatchCap == WARP_SIZE * BLOCKDIMY
Rows == 0 .. (NumWeights - 1)
PadVals == {-1} \cup Rows
GradSeeds == {-1}
Strides == {1, 2}
NoCount == [defined |-> FALSE, data |-> <<>>]

Undef == <<>>
Def(c) == c # Undef
Cell(v) == <<v>>
AddCell(a, b) == IF Def(a) /\ Def(b) THEN <<a[1] + b[1]>> ELSE Undef

CeilDiv(a, b) == (a + b - 1) \div b
Min(S) == CHOOSE x \in S : \A y \in S : x <= y
Max(S) == CHOOSE x \in S : \A y \in S : x >= y

RECURSIVE Pow(_, _)
Pow(b, e) == IF e = 0 THEN 1 ELSE b * Pow(b, e - 1)
RECURSIVE Gcd(_, _)
Gcd(a, b) == IF b = 0 THEN a ELSE Gcd(b, a % b)
RECURSIVE LcmUpTo(_)
LcmUpTo(k) == IF k <= 1 THEN 1 ELSE LET l == LcmUpTo(k - 1) IN (l * k) \div Gcd(l, k)

\* 1.0 in fixed point: every 1/count with count <= MaxN is exact.
ONE == LcmUpTo(MaxN)
Mul(a, b) == (a * b) \div ONE

VARIABLES
  args,           \* what the boundary checks look at: element type, layout, device, rank
  indices,        \* the Index List as its storage reads through data<int64_t>()
  grad,           \* the upstream gradient, [0..n-1 -> [0..stride-1 -> Int]]
  stride,         \* row length of grad_weight
  padding_idx,
  scale_grad_by_freq,
  hpc,            \* position of the host function
  kernel,         \* which kernel the host launched: "none", "feature", "sorted"
  grad_weight,    \* [Rows -> [0..stride-1 -> cell]]
  sorted_indices,
  orig_indices,
  count,          \* [defined, data]: the count tensor of line 273
  indices_batch,  \* per block: [0..BatchCap-1 -> cell]
  smem,           \* per block: [0..BatchCap-1 -> cell]
  fk,             \* feature-kernel warps: <<block, threadIdx.y>> -> locals
  bk,             \* backward-kernel warps: <<idx0, blockIdx.y>> -> locals
  addlog,         \* history: per row and column, the additions in the order applied
  weight,         \* the Weight Table, [Rows -> [0..RDim-1 -> element]]
  weight0,        \* history: the Weight Table as passed to embedding_renorm_cuda_
  max_norm,
  norm_type,
  unique_indices, \* the output of unique_copy, [0..num_unique_indices-1 -> Rows]
  rk              \* renorm-kernel blocks: blockIdx.x -> locals

bvars == <<args, indices, grad, stride, padding_idx, scale_grad_by_freq, hpc, kernel,
           grad_weight, sorted_indices, orig_indices, count, indices_batch, smem,
           fk, bk, addlog>>

bvars_but_hpc == <<args, indices, grad, stride, padding_idx, scale_grad_by_freq, kernel,
                  grad_weight, sorted_indices, orig_indices, count, indices_batch,
                  smem, fk, bk, addlog>>
rvars == <<weight, weight0, max_norm, norm_type, unique_indices, rk>>
vars == <<bvars, rvars>>

n == Cardinality(DOMAIN indices)
Cols == 0 .. (stride - 1)
Pos == 0 .. (n - 1)

GradOf(seed, len, s) ==
  [i \in 0 .. (len - 1) |-> [f \in 0 .. (s - 1) |-> seed * Pow(3, i) * (f + 1) * ONE]]

(***************************************************************************)
(* The tensor properties the TensorArg checks of lines 209-213 and 328-333 *)
(* examine.  A check that finds its property violated throws, which ends   *)
(* the host function.                                                      *)
(***************************************************************************)
ScalarTypes == {"Long", "Int"}
kLong == "Long"
CheckScalarType(t, ty) == t = ty
CheckContiguous(c) == c
CheckDim(d, k) == d = k
CheckSameGPU(g) == g

InitBackward ==
  /\ args \in [indices_type : ScalarTypes, indices_contiguous : BOOLEAN,
               same_gpu : BOOLEAN, self_contiguous : {TRUE}, self_dim : {2}]
  /\ indices \in UNION {[0 .. (len - 1) -> Rows] : len \in 0 .. MaxN}
  /\ stride \in Strides
  /\ \E seed \in GradSeeds : grad = GradOf(seed, Cardinality(DOMAIN indices), stride)
  /\ padding_idx \in PadVals
  /\ scale_grad_by_freq \in BOOLEAN
  /\ hpc = "call"
  /\ kernel = "none"
  /\ grad_weight = <<>>
  /\ sorted_indices = <<>>
  /\ orig_indices = <<>>
  /\ count = NoCount
  /\ indices_batch = <<>>
  /\ smem = <<>>
  /\ fk = <<>>
  /\ bk = <<>>
  /\ addlog = <<>>
  /\ weight = <<>>
  /\ weight0 = <<>>
  /\ max_norm = 0
  /\ norm_type = 0
  /\ unique_indices = <<>>
  /\ rk = <<>>

(***************************************************************************)
(* embedding_backward_cuda: the boundary checks (lines 209-213).           *)
(***************************************************************************)
BackwardChecksNoGPU ==
  /\ CheckScalarType(args.indices_type, kLong)
  /\ CheckContiguous(args.indices_contiguous)

BackwardChecks ==
  /\ CheckScalarType(args.indices_type, kLong)
  /\ CheckContiguous(args.indices_contiguous)
  /\ CheckSameGPU(args.same_gpu)

CheckBackward ==
  /\ hpc = "call"
  /\ hpc' = IF BackwardChecks THEN "entry" ELSE "error"
  /\ UNCHANGED rvars
  /\ UNCHANGED <<args, indices, grad, stride, padding_idx, scale_grad_by_freq, kernel,
                 grad_weight, sorted_indices, orig_indices, count, indices_batch,
                 smem, fk, bk, addlog>>

(***************************************************************************)
(* embedding_backward_cuda: allocation and dispatch (lines 215-247).       *)
(***************************************************************************)
Zeros == [r \in Rows |-> [f \in Cols |-> Cell(0)]]
EmptyLog == [r \in Rows |-> [f \in Cols |-> <<>>]]

UseDirectBelow == n < DIRECT_MAX /\ ~scale_grad_by_freq
UseDirect == n <= DIRECT_MAX /\ ~scale_grad_by_freq

GridFeature == CeilDiv(stride, WARP_SIZE)
FkProcs == {<<b, ty>> : b \in 0 .. (GridFeature - 1), ty \in Warps}
FkStart ==
  [pc |-> IF 0 < n THEN "load" ELSE "done", batch_start |-> 0, chunk_start |-> 0,
   dst_row |-> Undef, mask |-> {}, tmp |-> <<>>, folded |-> <<>>]

Dispatch ==
  /\ hpc = "entry"
  /\ grad_weight' = Zeros
  /\ addlog' = EmptyLog
  /\ IF UseDirect
     THEN /\ hpc' = "direct"
          /\ kernel' = "feature"
          /\ fk' = [p \in FkProcs |-> FkStart]
          /\ indices_batch' = [b \in 0 .. (GridFeature - 1) |->
                                 [k \in 0 .. (BatchCap - 1) |-> Undef]]
          /\ smem' = [b \in 0 .. (GridFeature - 1) |->
                                 [k \in 0 .. (BatchCap - 1) |-> Undef]]
     ELSE /\ hpc' = "sort"
          /\ UNCHANGED <<kernel, fk, indices_batch, smem>>
  /\ UNCHANGED rvars
  /\ UNCHANGED <<args, indices, grad, stride, padding_idx, scale_grad_by_freq,
                 sorted_indices, orig_indices, count, bk>>

(***************************************************************************)
(* embedding_backward_feature_kernel (lines 26-98), one warp per process.  *)
(***************************************************************************)
FeatureOf(b, tx) == tx + b * WARP_SIZE
ReadBatch(batch, k) == IF k \in DOMAIN batch THEN batch[k] ELSE Undef
NThisChunk(cs) == IF (n - cs) < BLOCKDIMY THEN n - cs ELSE BLOCKDIMY
Ffs(mask) == IF mask = {} THEN 0 ELSE Min(mask) + 1
MyS(ty, tx) == WARP_SIZE * ty + tx

\* AfterChunk entering the next chunk without the barrier of line 55
AfterChunkNoBarrier(w) ==
  LET cs == w.chunk_start + BLOCKDIMY
      bs == w.batch_start + BatchCap
      z  == [w EXCEPT !.dst_row = Undef, !.mask = {}, !.tmp = <<>>, !.folded = <<>>]
  IN IF cs < n THEN [z EXCEPT !.pc = "stage", !.chunk_start = cs]
     ELSE IF bs < n THEN [z EXCEPT !.pc = "load", !.batch_start = bs, !.chunk_start = bs]
     ELSE [z EXCEPT !.pc = "done", !.batch_start = 0, !.chunk_start = 0]

\* AfterChunk with the chunk loop running to the end of the batch instead of to n
AfterChunkWholeBatch(w) ==
  LET cs == w.chunk_start + BLOCKDIMY
      bs == w.batch_start + BatchCap
      z  == [w EXCEPT !.dst_row = Undef, !.mask = {}, !.tmp = <<>>, !.folded = <<>>]
  IN IF cs < bs THEN [z EXCEPT !.pc = "sync1", !.chunk_start = cs]
     ELSE IF bs < n THEN [z EXCEPT !.pc = "load", !.batch_start = bs, !.chunk_start = bs]
     ELSE [z EXCEPT !.pc = "done", !.batch_start = 0, !.chunk_start = 0]

\* AfterChunk with a warp whose row is padding_idx leaving the kernel
AfterChunkExitOnPadding(w) ==
  LET cs == w.chunk_start + BLOCKDIMY
      bs == w.batch_start + BatchCap
      z  == [w EXCEPT !.dst_row = Undef, !.mask = {}, !.tmp = <<>>, !.folded = <<>>]
  IN IF w.dst_row = Cell(padding_idx)
     THEN [z EXCEPT !.pc = "done", !.batch_start = 0, !.chunk_start = 0]
     ELSE IF cs < n THEN [z EXCEPT !.pc = "sync1", !.chunk_start = cs]
     ELSE IF bs < n THEN [z EXCEPT !.pc = "load", !.batch_start = bs, !.chunk_start = bs]
     ELSE [z EXCEPT !.pc = "done", !.batch_start = 0, !.chunk_start = 0]

\* lines 43, 51: the increments and tests of the two loops
AfterChunk(w) ==
  LET cs == w.chunk_start + BLOCKDIMY
      bs == w.batch_start + BatchCap
      z  == [w EXCEPT !.dst_row = Undef, !.mask = {}, !.tmp = <<>>, !.folded = <<>>]
  IN IF cs < n THEN [z EXCEPT !.pc = "sync1", !.chunk_start = cs]
     ELSE IF bs < n THEN [z EXCEPT !.pc = "load", !.batch_start = bs, !.chunk_start = bs]
     ELSE [z EXCEPT !.pc = "done", !.batch_start = 0, !.chunk_start = 0]

\* lines 46-48
FkLoad(p) ==
  /\ hpc = "direct" /\ fk[p].pc = "load"
  /\ LET b == p[1]
         ty == p[2]
         bs == fk[p].batch_start
     IN /\ indices_batch' = [indices_batch EXCEPT ![b] =
               [k \in DOMAIN @ |->
                  IF k \in {tx + ty * WARP_SIZE : tx \in Lanes} /\ bs + k < n
                  THEN Cell(indices[bs + k]) ELSE @[k]]]
        /\ fk' = [fk EXCEPT ![p].pc = "sync1", ![p].chunk_start = bs]
  /\ UNCHANGED rvars
  /\ UNCHANGED <<args, indices, grad, stride, padding_idx, scale_grad_by_freq, hpc, kernel,
                 grad_weight, sorted_indices, orig_indices, count, smem, bk, addlog>>

\* lines 55 and 66: __syncthreads.  The last warp of the block to arrive releases all.
AfterSync(pc) == IF pc \in {"sync1", "wait1"} THEN "stage" ELSE "elect"
FkSync(p) ==
  /\ hpc = "direct" /\ fk[p].pc \in {"sync1", "sync2"}
  /\ LET b == p[1]
         others == {q \in FkProcs : q[1] = b /\ q # p}
     IN IF \A q \in others : fk[q].pc \in {"wait1", "wait2"}
        THEN fk' = [q \in FkProcs |->
                      IF q[1] = b THEN [fk[q] EXCEPT !.pc = AfterSync(fk[q].pc)] ELSE fk[q]]
        ELSE fk' = [fk EXCEPT ![p].pc = IF @ = "sync1" THEN "wait1" ELSE "wait2"]
  /\ UNCHANGED rvars
  /\ UNCHANGED <<args, indices, grad, stride, padding_idx, scale_grad_by_freq, hpc, kernel,
                 grad_weight, sorted_indices, orig_indices, count, indices_batch, smem,
                 bk, addlog>>

\* line 63
StageCond(src_row, f, dst_row) ==
  src_row < n /\ f < stride /\ dst_row # Cell(padding_idx)

\* lines 57-64
FkStage(p) ==
  /\ hpc = "direct" /\ fk[p].pc = "stage"
  /\ LET b == p[1]
         ty == p[2]
         src_row == fk[p].chunk_start + ty
         dst_row == ReadBatch(indices_batch[b], src_row - fk[p].batch_start)
     IN /\ smem' = [smem EXCEPT ![b] =
               [k \in DOMAIN @ |->
                  IF \E tx \in Lanes : k = MyS(ty, tx)
                                        /\ StageCond(src_row, FeatureOf(b, tx), dst_row)
                  THEN Cell(grad[src_row][FeatureOf(b, k - WARP_SIZE * ty)])
                  ELSE @[k]]]
        /\ fk' = [fk EXCEPT ![p].pc = "sync2", ![p].dst_row = dst_row]
  /\ UNCHANGED rvars
  /\ UNCHANGED <<args, indices, grad, stride, padding_idx, scale_grad_by_freq, hpc, kernel,
                 grad_weight, sorted_indices, orig_indices, count, indices_batch, bk,
                 addlog>>

\* line 73
ElectCond(src_row, dst_row) == dst_row # Cell(padding_idx) /\ src_row < n

\* Matchmask with the peers taken from the first chunk of the batch
MatchmaskFirstChunk(b, w) ==
  {tx \in Lanes :
     /\ w.dst_row = ReadBatch(indices_batch[b], tx)
     /\ ~(tx >= NThisChunk(w.chunk_start))}

\* lines 75-79: the ballot over the lanes of the warp
Matchmask(b, w) ==
  {tx \in Lanes :
     /\ w.dst_row = ReadBatch(indices_batch[b], w.chunk_start - w.batch_start + tx)
     /\ ~(tx >= NThisChunk(w.chunk_start))}

\* FirstRemainingPeer taking the highest set bit
LastRemainingPeer(mask) == IF mask = {} THEN -1 ELSE Max(mask)

\* lines 81, 88
FirstRemainingPeer(mask) == Ffs(mask) - 1

\* IsLeader with every warp of a match group its own leader
IsLeaderEvery(ty, mask) == ty \in mask

\* line 83
IsLeader(ty, mask) == ty = FirstRemainingPeer(mask)

\* lines 73-85
FkElect(p) ==
  /\ hpc = "direct" /\ fk[p].pc = "elect"
  /\ LET b == p[1]
         ty == p[2]
         w == fk[p]
         src_row == w.chunk_start + ty
         mask == Matchmask(b, w)
     IN IF ElectCond(src_row, w.dst_row) /\ IsLeader(ty, mask)
        THEN fk' = [fk EXCEPT ![p].pc = IF mask \ {ty} = {} THEN "rmw_rd" ELSE "fold",
                              ![p].mask = mask \ {ty},
                              ![p].folded = <<src_row>>]
        ELSE fk' = [fk EXCEPT ![p] = AfterChunk(w)]
  /\ UNCHANGED rvars
  /\ UNCHANGED <<args, indices, grad, stride, padding_idx, scale_grad_by_freq, hpc, kernel,
                 grad_weight, sorted_indices, orig_indices, count, indices_batch, smem,
                 bk, addlog>>

\* lines 86-91: one iteration of the leader's fold
FkFold(p) ==
  /\ hpc = "direct" /\ fk[p].pc = "fold"
  /\ LET b == p[1]
         ty == p[2]
         w == fk[p]
         peer == FirstRemainingPeer(w.mask)
         rest == w.mask \ {peer}
     IN /\ smem' = [smem EXCEPT ![b] =
               [k \in DOMAIN @ |->
                  IF \E tx \in Lanes : k = MyS(ty, tx)
                  THEN AddCell(@[k], @[(k - WARP_SIZE * ty) + WARP_SIZE * peer])
                  ELSE @[k]]]
        /\ fk' = [fk EXCEPT ![p].pc = IF rest = {} THEN "rmw_rd" ELSE "fold",
                            ![p].mask = rest,
                            ![p].folded = Append(@, w.chunk_start + peer)]
  /\ UNCHANGED rvars
  /\ UNCHANGED <<args, indices, grad, stride, padding_idx, scale_grad_by_freq, hpc, kernel,
                 grad_weight, sorted_indices, orig_indices, count, indices_batch, bk,
                 addlog>>

\* lines 92-93: the read half of  grad_weight[...] += my_s[...]
FkRmwRead(p) ==
  /\ hpc = "direct" /\ fk[p].pc = "rmw_rd"
  /\ LET b == p[1]
         r == fk[p].dst_row[1]
     IN fk' = [fk EXCEPT ![p].pc = "rmw_wr",
                         ![p].tmp = [tx \in {t \in Lanes : FeatureOf(b, t) < stride} |->
                                       grad_weight[r][FeatureOf(b, tx)]]]
  /\ UNCHANGED rvars
  /\ UNCHANGED <<args, indices, grad, stride, padding_idx, scale_grad_by_freq, hpc, kernel,
                 grad_weight, sorted_indices, orig_indices, count, indices_batch, smem,
                 bk, addlog>>

\* lines 92-93: the write half
FkRmwWrite(p) ==
  /\ hpc = "direct" /\ fk[p].pc = "rmw_wr"
  /\ LET b == p[1]
         ty == p[2]
         w == fk[p]
         r == w.dst_row[1]
         mine == {FeatureOf(b, tx) : tx \in DOMAIN w.tmp}
     IN /\ grad_weight' = [grad_weight EXCEPT ![r] =
               [f \in Cols |->
                  IF f \in mine
                  THEN AddCell(w.tmp[f - b * WARP_SIZE], smem[b][MyS(ty, f - b * WARP_SIZE)])
                  ELSE @[f]]]
        /\ addlog' = [addlog EXCEPT ![r] =
               [f \in Cols |-> IF f \in mine THEN Append(@[f], w.folded) ELSE @[f]]]
        /\ fk' = [fk EXCEPT ![p] = AfterChunk(w)]
  /\ UNCHANGED rvars
  /\ UNCHANGED <<args, indices, grad, stride, padding_idx, scale_grad_by_freq, hpc, kernel,
                 sorted_indices, orig_indices, count, indices_batch, smem, bk>>

\* lines 245-246: the launch has run to completion and the host returns
FeatureFinish ==
  /\ hpc = "direct"
  /\ \A p \in FkProcs : fk[p].pc = "done"
  /\ hpc' = "done"
  /\ UNCHANGED rvars
  /\ UNCHANGED <<args, indices, grad, stride, padding_idx, scale_grad_by_freq, kernel,
                 grad_weight, sorted_indices, orig_indices, count, indices_batch, smem,
                 fk, bk, addlog>>

(***************************************************************************)
(* embedding_backward_cuda: sort, counts and launch (lines 249-323).       *)
(***************************************************************************)
\* line 270: ThrustLTOp
ThrustLTOp(a, b) == a < b

\* lines 257-270: what sort_by_key may leave in orig_indices; the sort need not be
\* stable, so any permutation that puts the keys in ascending order is possible.
SortResults ==
  {o \in [Pos -> Pos] :
     /\ \A j, k \in Pos : j # k => o[j] # o[k]
     /\ \A j, k \in Pos : j < k => ~ThrustLTOp(indices[o[k]], indices[o[j]])}

SortByKey ==
  /\ hpc = "sort"
  /\ \E o \in SortResults :
       /\ orig_indices' = o
       /\ sorted_indices' = [j \in Pos |-> indices[o[j]]]
  /\ hpc' = IF scale_grad_by_freq THEN "scan1" ELSE "launch"
  /\ UNCHANGED rvars
  /\ UNCHANGED <<args, indices, grad, stride, padding_idx, scale_grad_by_freq, kernel,
                 grad_weight, count, indices_batch, smem, fk, bk, addlog>>

\* thrust::make_reverse_iterator over len elements
Reverse(a, len) == [i \in 0 .. (len - 1) |-> a[(len - 1) - i]]

Plus(a, b) == a + b
Maximum(a, b) == IF a < b THEN b ELSE a

\* lines 285-291: inclusive_scan_by_key of the constant 1 with plus
CountForward(keys, len) ==
  LET out[i \in 0 .. (len - 1)] ==
        IF i = 0 \/ keys[i] # keys[i - 1] THEN 1 ELSE Plus(out[i - 1], 1)
  IN out

\* lines 296-304: inclusive_scan_by_key with equal_to and maximum
MaxScanByKey(keys, vals, len) ==
  LET out[i \in 0 .. (len - 1)] ==
        IF i = 0 \/ keys[i] # keys[i - 1] THEN vals[i] ELSE Maximum(out[i - 1], vals[i])
  IN out

\* CountReverse without the reverse pass
CountReverseSkipped(keys, cnt, len) == cnt

\* lines 296-304: the scan runs on reverse iterators and writes through one
CountReverse(keys, cnt, len) ==
  Reverse(MaxScanByKey(Reverse(keys, len), Reverse(cnt, len), len), len)

ScanForward ==
  /\ hpc = "scan1"
  /\ count' = [defined |-> TRUE, data |-> CountForward(sorted_indices, n)]
  /\ hpc' = "scan2"
  /\ UNCHANGED rvars
  /\ UNCHANGED <<args, indices, grad, stride, padding_idx, scale_grad_by_freq, kernel,
                 grad_weight, sorted_indices, orig_indices, indices_batch, smem, fk, bk,
                 addlog>>

ScanReverse ==
  /\ hpc = "scan2"
  /\ count' = [count EXCEPT !.data = CountReverse(sorted_indices, @, n)]
  /\ hpc' = "launch"
  /\ UNCHANGED rvars
  /\ UNCHANGED <<args, indices, grad, stride, padding_idx, scale_grad_by_freq, kernel,
                 grad_weight, sorted_indices, orig_indices, indices_batch, smem, fk, bk,
                 addlog>>

\* lines 307-308
GridSortedX == CeilDiv(n, SORT_WARPS)
GridSortedY == CeilDiv(stride, WARP_SIZE * SZ)
BkProcs == {<<i, by>> : i \in 0 .. (GridSortedX * SORT_WARPS - 1),
                        by \in 0 .. (GridSortedY - 1)}

\* IsOwner without the padding test
IsOwnerNoPadding(idx) ==
  /\ idx < n
  /\ (idx = 0 \/ sorted_indices[idx] # sorted_indices[idx - 1])

\* lines 123-125
IsOwner(idx) ==
  /\ idx < n
  /\ (idx = 0 \/ sorted_indices[idx] # sorted_indices[idx - 1])
  /\ sorted_indices[idx] # padding_idx

\* lines 310-321.  A grid of zero blocks (n = 0) is an invalid launch configuration,
\* which cudaGetLastError reports and THCudaCheck turns into an error.  A warp's
\* first step (lines 123-125) reads only data that no warp writes, so it is taken
\* with the launch: a warp that fails the test has exited.
LaunchSorted ==
  /\ hpc = "launch"
  /\ IF GridSortedX = 0
     THEN /\ hpc' = "error"
          /\ UNCHANGED <<kernel, bk>>
     ELSE /\ hpc' = "sorted"
          /\ kernel' = "sorted"
          /\ bk' = [p \in BkProcs |->
                    IF IsOwner(p[1]) THEN [pc |-> "read", idx |-> p[1], weight |-> <<>>]
                    ELSE [pc |-> "done", idx |-> 0, weight |-> <<>>]]
  /\ UNCHANGED rvars
  /\ UNCHANGED <<args, indices, grad, stride, padding_idx, scale_grad_by_freq,
                 grad_weight, sorted_indices, orig_indices, count, indices_batch, smem,
                 fk, addlog>>

(***************************************************************************)
(* embedding_backward_kernel (lines 101-160), one warp per process.        *)
(***************************************************************************)
\* lines 127, 137, 138: the feature columns of a warp that are inside the row
TileCols(by) ==
  {fd \in Cols : \E tx \in Lanes, ii \in 0 .. (SZ - 1) :
                    fd = (tx + by * WARP_SIZE * SZ) + ii * WARP_SIZE}

\* SameRun that ends every run after its first member
SameRunNever(idx) == FALSE

\* line 158
SameRun(idx) == idx < n /\ sorted_indices[idx] = sorted_indices[idx - 1]

\* Scale that ignores the counts
ScaleUnscaled(idx) == ONE

\* line 130
Scale(idx) == IF count.defined THEN ONE \div count.data[idx] ELSE ONE

\* lines 127-142: the loads of one iteration
BkRead(p) ==
  /\ hpc = "sorted" /\ bk[p].pc = "read"
  /\ LET weight_row == sorted_indices[bk[p].idx]
     IN bk' = [bk EXCEPT ![p].pc = "write",
                         ![p].weight = [fd \in TileCols(p[2]) |-> grad_weight[weight_row][fd]]]
  /\ UNCHANGED rvars
  /\ UNCHANGED <<args, indices, grad, stride, padding_idx, scale_grad_by_freq, hpc, kernel,
                 grad_weight, sorted_indices, orig_indices, count, indices_batch, smem,
                 fk, addlog>>

\* lines 144-158: the multiply-add, the stores, and the loop test
BkWrite(p) ==
  /\ hpc = "sorted" /\ bk[p].pc = "write"
  /\ LET idx == bk[p].idx
         weight_row == sorted_indices[idx]
         grad_row == orig_indices[idx]
         mine == DOMAIN bk[p].weight
     IN /\ grad_weight' = [grad_weight EXCEPT ![weight_row] =
               [fd \in Cols |->
                  IF fd \in mine
                  THEN AddCell(bk[p].weight[fd], Cell(Mul(grad[grad_row][fd], Scale(idx))))
                  ELSE @[fd]]]
        /\ addlog' = [addlog EXCEPT ![weight_row] =
               [fd \in Cols |-> IF fd \in mine THEN Append(@[fd], <<grad_row>>) ELSE @[fd]]]
        /\ bk' = [bk EXCEPT ![p] = IF SameRun(idx + 1)
                                   THEN [pc |-> "read", idx |-> idx + 1, weight |-> <<>>]
                                   ELSE [pc |-> "done", idx |-> 0, weight |-> <<>>]]
  /\ UNCHANGED rvars
  /\ UNCHANGED <<args, indices, grad, stride, padding_idx, scale_grad_by_freq, hpc, kernel,
                 sorted_indices, orig_indices, count, indices_batch, smem, fk>>

\* lines 321-323
SortedFinish ==
  /\ hpc = "sorted"
  /\ \A p \in BkProcs : bk[p].pc = "done"
  /\ hpc' = "done"
  /\ UNCHANGED rvars
  /\ UNCHANGED <<args, indices, grad, stride, padding_idx, scale_grad_by_freq, kernel,
                 grad_weight, sorted_indices, orig_indices, count, indices_batch, smem,
                 fk, bk, addlog>>

NextBackward ==
  \/ CheckBackward
  \/ Dispatch
  \/ \E p \in DOMAIN fk : FkLoad(p)
  \/ \E p \in DOMAIN fk : FkSync(p)
  \/ \E p \in DOMAIN fk : FkStage(p)
  \/ \E p \in DOMAIN fk : FkElect(p)
  \/ \E p \in DOMAIN fk : FkFold(p)
  \/ \E p \in DOMAIN fk : FkRmwRead(p)
  \/ \E p \in DOMAIN fk : FkRmwWrite(p)
  \/ FeatureFinish
  \/ SortByKey
  \/ ScanForward
  \/ ScanReverse
  \/ LaunchSorted
  \/ \E p \in DOMAIN bk : BkRead(p)
  \/ \E p \in DOMAIN bk : BkWrite(p)
  \/ SortedFinish

Spec == InitBackward /\ [][NextBackward]_vars

\* The direct path alone: the host up to the dispatch, and the feature kernel.  A
\* launched kernel's warps keep being scheduled: a warp that is not waiting at a
\* barrier takes its next step, and the host takes its next step when it can.
NextDirect ==
  \/ CheckBackward
  \/ Dispatch
  \/ \E p \in DOMAIN fk : FkLoad(p)
  \/ \E p \in DOMAIN fk : FkSync(p)
  \/ \E p \in DOMAIN fk : FkStage(p)
  \/ \E p \in DOMAIN fk : FkElect(p)
  \/ \E p \in DOMAIN fk : FkFold(p)
  \/ \E p \in DOMAIN fk : FkRmwRead(p)
  \/ \E p \in DOMAIN fk : FkRmwWrite(p)
  \/ FeatureFinish

SpecFair == InitBackward /\ [][NextDirect]_vars /\ WF_vars(NextDirect)

(***************************************************************************)
(* embedding_renorm_cuda_ (lines 326-368) and renorm_kernel (164-202).     *)
(*                                                                         *)
(* With p = norm_type, an element of the Weight Table is [x, s]: the real  *)
(* number x * s^(1/p), where x is the integer it started as and s > 0 is   *)
(* the rational <<numerator, denominator>> by which its p-th power has     *)
(* been scaled since.  The arithmetic of the kernel is exact on this form; *)
(* the 1e-7 of line 197 is taken as 0.                                     *)
(***************************************************************************)
MaxLenR == 3
RowPatterns == <<(<<2, 1>>), (<<-1, 2>>), (<<-2, 1>>), (<<1, 0>>)>>
RDim == Len(RowPatterns[1])
MaxNorms == {1, 2}
NormTypes == {1, 2, 3}
RCols == 0 .. (RDim - 1)

Abs(x) == IF x < 0 THEN -x ELSE x
Rat(nu, de) == LET g == Gcd(Abs(nu), de) IN <<nu \div g, de \div g>>
RatAdd(a, b) == Rat(a[1] * b[2] + b[1] * a[2], a[2] * b[2])
RatMul(a, b) == Rat(a[1] * b[1], a[2] * b[2])
RatLeq(a, b) == a[1] * b[2] <= b[1] * a[2]

RowOf(pat) == [i \in RCols |-> [x |-> pat[i + 1], s |-> <<1, 1>>]]

InitRenorm ==
  /\ args \in [indices_type : ScalarTypes, indices_contiguous : BOOLEAN,
               same_gpu : BOOLEAN, self_contiguous : BOOLEAN, self_dim : {1, 2}]
  /\ indices \in UNION {[0 .. (len - 1) -> Rows] : len \in 0 .. MaxLenR}
  /\ \E k \in 1 .. Len(RowPatterns) :
       weight = [r \in Rows |-> RowOf(RowPatterns[((r + k) % Len(RowPatterns)) + 1])]
  /\ weight0 = weight
  /\ max_norm \in MaxNorms
  /\ norm_type \in NormTypes
  /\ unique_indices = <<>>
  /\ rk = <<>>
  /\ hpc = "rcall"
  /\ kernel = "none"
  /\ grad = <<>>
  /\ stride = 0
  /\ padding_idx = 0
  /\ scale_grad_by_freq = FALSE
  /\ grad_weight = <<>>
  /\ sorted_indices = <<>>
  /\ orig_indices = <<>>
  /\ count = NoCount
  /\ indices_batch = <<>>
  /\ smem = <<>>
  /\ fk = <<>>
  /\ bk = <<>>
  /\ addlog = <<>>

\* line 349: thrust::unique_copy keeps an element unless it equals its predecessor
UniqueCopy(a, len) ==
  LET keep == {i \in 0 .. (len - 1) : i = 0 \/ a[i] # a[i - 1]}
      nth(j) == CHOOSE i \in keep : Cardinality({k \in keep : k < i}) = j
  IN [j \in 0 .. (Cardinality(keep) - 1) |-> a[nth(j)]]

\* lines 328-333: the boundary checks; the element type of indices is not among them
RenormChecks ==
  /\ CheckContiguous(args.self_contiguous)
  /\ CheckContiguous(args.indices_contiguous)
  /\ CheckDim(args.self_dim, 2)
  /\ CheckSameGPU(args.same_gpu)

CheckRenorm ==
  /\ hpc = "rcall"
  /\ hpc' = IF RenormChecks THEN "rentry" ELSE "error"
  /\ UNCHANGED bvars_but_hpc
  /\ UNCHANGED rvars

\* lines 341-350
RUnique ==
  /\ hpc = "rentry"
  /\ unique_indices' = UniqueCopy(indices, n)
  /\ hpc' = "rlaunch"
  /\ UNCHANGED bvars_but_hpc
  /\ UNCHANGED <<weight, weight0, max_norm, norm_type, rk>>

\* lines 352-365.  A grid of zero blocks (an empty Index List) is an invalid launch
\* configuration, which THCudaCheck turns into an error.
RLaunch ==
  /\ hpc = "rlaunch"
  /\ IF DOMAIN unique_indices = {}
     THEN /\ hpc' = "error"
          /\ UNCHANGED <<kernel, rk>>
     ELSE /\ hpc' = "renorm"
          /\ kernel' = "renorm"
          /\ rk' = [b \in DOMAIN unique_indices |-> [pc |-> "read", i |-> 0, v |-> <<0, 1>>]]
  /\ UNCHANGED <<args, indices, grad, stride, padding_idx, scale_grad_by_freq,
                 grad_weight, sorted_indices, orig_indices, count, indices_batch, smem,
                 fk, bk, addlog>>
  /\ UNCHANGED <<weight, weight0, max_norm, norm_type, unique_indices>>

\* lines 178-184, on the integer x
NormTerm(x, p) == IF p = 1 THEN Abs(x) ELSE IF p = 2 THEN x * x ELSE Pow(x, p)

\* lines 177-184, on an element: g(x * c) = c^p * g(x) for c > 0
ElemTerm(e, p) == Rat(NormTerm(e.x, p) * e.s[1], e.s[2])

\* line 191: std::pow(v, 1/p) of a negative v is NaN unless 1/p is an integer
NormIsNaN(v, p) == v[1] < 0 /\ p # 1

\* Exceeds testing the norm against 0 instead of max_norm
ExceedsZero(v, p, mx) == ~NormIsNaN(v, p) /\ v[1] > 0

\* lines 191, 196: sdata[0] > max_norm, compared on the p-th powers
Exceeds(v, p, mx) == ~NormIsNaN(v, p) /\ v[1] > Pow(mx, p) * v[2]

\* line 197: the p-th power of factor
FactorPow(v, p, mx) == Rat(Pow(mx, p) * v[2], v[1])

\* lines 176-196: the load of one element; after the last one the block reduces
\* the partial sums, takes the root and tests it
RkRead(b) ==
  /\ hpc = "renorm" /\ rk[b].pc = "read"
  /\ LET row == unique_indices[b]
         i == rk[b].i
         v == RatAdd(rk[b].v, ElemTerm(weight[row][i], norm_type))
     IN rk' = [rk EXCEPT ![b] =
                 IF i + 1 < RDim THEN [pc |-> "read", i |-> i + 1, v |-> v]
                 ELSE IF Exceeds(v, norm_type, max_norm)
                      THEN [pc |-> "write", i |-> 0, v |-> v]
                      ELSE [pc |-> "done", i |-> 0, v |-> v]]
  /\ UNCHANGED bvars
  /\ UNCHANGED <<weight, weight0, max_norm, norm_type, unique_indices>>

\* lines 197-200: the rescale of one element
RkWrite(b) ==
  /\ hpc = "renorm" /\ rk[b].pc = "write"
  /\ LET row == unique_indices[b]
         i == rk[b].i
     IN /\ weight' = [weight EXCEPT ![row][i].s =
                        RatMul(@, FactorPow(rk[b].v, norm_type, max_norm))]
        /\ rk' = [rk EXCEPT ![b] =
                    IF i + 1 < RDim THEN [@ EXCEPT !.i = i + 1]
                    ELSE [@ EXCEPT !.pc = "done", !.i = 0]]
  /\ UNCHANGED bvars
  /\ UNCHANGED <<weight0, max_norm, norm_type, unique_indices>>

\* lines 365-367
RFinish ==
  /\ hpc = "renorm"
  /\ \A b \in DOMAIN rk : rk[b].pc = "done"
  /\ hpc' = "done"
  /\ UNCHANGED bvars_but_hpc
  /\ UNCHANGED rvars

NextRenorm ==
  \/ CheckRenorm
  \/ RUnique
  \/ RLaunch
  \/ \E b \in DOMAIN rk : RkRead(b)
  \/ \E b \in DOMAIN rk : RkWrite(b)
  \/ RFinish

SpecRenorm == InitRenorm /\ [][NextRenorm]_vars

\* Either host function may be the one called.
InitAll == InitBackward \/ InitRenorm
NextAll == NextBackward \/ NextRenorm
SpecAll == InitAll /\ [][NextAll]_vars

(***************************************************************************)
(* Properties of embedding_backward_cuda, checked under Spec.              *)
(***************************************************************************)
PositionsOf(r) == {i \in Pos : indices[i] = r}
Occurrences(i) == Cardinality(PositionsOf(indices[i]))

RECURSIVE AscSeq(_)
AscSeq(S) == IF S = {} THEN <<>> ELSE <<Min(S)>> \o AscSeq(S \ {Min(S)})

RECURSIVE SumGrad(_, _)
SumGrad(S, f) ==
  IF S = {} THEN 0
  ELSE LET i == CHOOSE i \in S : TRUE IN grad[i][f] + SumGrad(S \ {i}, f)

RECURSIVE SumScaledGrad(_, _)
SumScaledGrad(S, f) ==
  IF S = {} THEN 0
  ELSE LET i == CHOOSE i \in S : TRUE
       IN (IF scale_grad_by_freq
           THEN (grad[i][f] * (ONE \div Occurrences(i))) \div ONE
           ELSE grad[i][f])
          + SumScaledGrad(S \ {i}, f)

FeatureDone == hpc = "done" /\ kernel = "feature"
SortedDone == hpc = "done" /\ kernel = "sorted"
ChunkOf(i) == i \div BLOCKDIMY

\* C1: when embedding_backward_feature_kernel has finished on a zeroed grad_weight,
\* every cell of every row other than padding_idx holds the sum of grad[i][f] over
\* the positions i whose index is that row (zero when there is none), whatever the
\* interleaving of the warps was.
C1_DirectSum ==
  FeatureDone =>
    \A r \in Rows, f \in Cols :
      r # padding_idx => grad_weight[r][f] = Cell(SumGrad(PositionsOf(r), f))

\* C1 witness: a finished feature kernel where a non-padding row was selected twice
\* in one chunk and once more in a later chunk, and its cells hold a nonzero sum.
C1_Witness ==
  /\ FeatureDone
  /\ \E r \in Rows :
       /\ r # padding_idx
       /\ \E i, j, k \in PositionsOf(r) : i < j /\ ChunkOf(i) = ChunkOf(j) /\ ChunkOf(j) < ChunkOf(k)
       /\ \A f \in Cols : grad_weight[r][f] = Cell(SumGrad(PositionsOf(r), f))
       /\ \A f \in Cols : grad_weight[r][f] # Cell(0)

\* C2: when embedding_backward_kernel has finished on a zeroed grad_weight, for every
\* permutation the sort returned, every cell of every row other than padding_idx holds
\* the sum over the original positions i with that index of grad[i][f] * scale(i),
\* scale(i) being 1/(occurrences of indices[i] in the Index List) with frequency
\* scaling and 1 without.
C2_SortedSum ==
  SortedDone =>
    \A r \in Rows, f \in Cols :
      r # padding_idx => grad_weight[r][f] = Cell(SumScaledGrad(PositionsOf(r), f))

\* C2 witness: a finished sorted kernel with frequency scaling, a non-padding row with
\* a run of three that the sort did not return in original order, and a second row.
C2_Witness ==
  /\ SortedDone
  /\ scale_grad_by_freq
  /\ \E r \in Rows :
       /\ r # padding_idx
       /\ Cardinality(PositionsOf(r)) = 3
       /\ \E j \in Pos : j + 1 \in Pos /\ sorted_indices[j] = r /\ sorted_indices[j + 1] = r
                         /\ orig_indices[j] > orig_indices[j + 1]
       /\ \A f \in Cols : grad_weight[r][f] = Cell(SumScaledGrad(PositionsOf(r), f))
  /\ \E i \in Pos : Occurrences(i) = 1 /\ indices[i] # padding_idx

\* C3: once embedding_backward_cuda has returned, under either kernel and with or
\* without frequency scaling, every cell of row padding_idx is zero and was never added to.
C3_PaddingRowZero ==
  (hpc = "done" /\ padding_idx \in Rows) =>
    \A f \in Cols : grad_weight[padding_idx][f] = Cell(0) /\ addlog[padding_idx][f] = <<>>

\* C3 witness: a returned call whose Index List holds padding_idx at least twice, next
\* to a non-padding index in the list (so in one chunk or adjacent after sorting), and
\* whose non-padding row received its gradient.
C3_Witness ==
  /\ hpc = "done"
  /\ padding_idx \in Rows
  /\ Cardinality(PositionsOf(padding_idx)) >= 2
  /\ \E i \in Pos : /\ i + 1 \in Pos
                    /\ ChunkOf(i) = ChunkOf(i + 1)
                    /\ indices[i] = padding_idx
                    /\ indices[i + 1] # padding_idx
                    /\ grad_weight[indices[i + 1]][0] # Cell(0)
  /\ \A f \in Cols : grad_weight[padding_idx][f] = Cell(0)

\* C4: after the forward count-by-key scan and the reverse max-by-key scan, count at
\* every sorted position is the number of occurrences of that position's value in the
\* whole list (the length of its duplicate run).
C4_FrequencyCounts ==
  (hpc \in {"launch", "sorted", "done", "error"} /\ count.defined) =>
    \A j \in Pos :
      count.data[j] = Cardinality({k \in Pos : sorted_indices[k] = sorted_indices[j]})

\* C4 witness: both scans have run on a list with a run of three and a run of one.
C4_Witness ==
  /\ hpc = "launch"
  /\ count.defined
  /\ \E j, k \in Pos : count.data[j] = 3 /\ count.data[k] = 1

\* The cells a warp has read for a  +=  and not yet written back.
FkInRmw(p) == fk[p].pc = "rmw_wr"
FkCells(p) == {<<fk[p].dst_row[1], FeatureOf(p[1], tx)>> : tx \in DOMAIN fk[p].tmp}
BkInRmw(p) == bk[p].pc = "write"
BkCells(p) == {<<sorted_indices[bk[p].idx], fd>> : fd \in DOMAIN bk[p].weight}

\* C6: in both kernels and in every interleaving, no two warps are ever between the
\* read and the write of a read-modify-write of the same grad_weight cell.
C6_SingleWriter ==
  /\ \A p, q \in DOMAIN fk :
       (p # q /\ FkInRmw(p) /\ FkInRmw(q)) => FkCells(p) \cap FkCells(q) = {}
  /\ \A p, q \in DOMAIN bk :
       (p # q /\ BkInRmw(p) /\ BkInRmw(q)) => BkCells(p) \cap BkCells(q) = {}

\* C6 witness: two leaders of one chunk are inside their read-modify-writes at the
\* same time, while a third warp of the chunk that targets the row of one of them
\* is not a leader.
C6_Witness ==
  \E p, q, t \in DOMAIN fk :
    /\ p # q /\ t # p /\ t # q
    /\ FkInRmw(p) /\ FkInRmw(q)
    /\ fk[t].chunk_start = fk[p].chunk_start
    /\ fk[t].chunk_start + t[2] < n
    /\ indices[fk[t].chunk_start + t[2]] = fk[p].dst_row[1]

\* The additions the feature kernel is specified to apply to a row: one per chunk that
\* selects the row, in ascending chunk order, each folding the chunk's positions of
\* that row in ascending order.
RECURSIVE DirectOrder(_, _)
DirectOrder(r, c) ==
  IF c * BLOCKDIMY >= n THEN <<>>
  ELSE LET S == {i \in PositionsOf(r) : ChunkOf(i) = c}
       IN (IF S = {} THEN <<>> ELSE <<AscSeq(S)>>) \o DirectOrder(r, c + 1)

\* The additions to a row in ascending original position, one position at a time.
RECURSIVE Singletons(_)
Singletons(q) == IF q = <<>> THEN <<>> ELSE <<(<<Head(q)>>)>> \o Singletons(Tail(q))

\* C7: for a fixed Index List the order in which the sorted kernel adds the original
\* positions of a run into its row is the same for every permutation the sort may
\* return; the stable permutation being one of them, that order is ascending original
\* position.
C7_SortedOrderFixed ==
  SortedDone =>
    \A r \in Rows, f \in Cols :
      r # padding_idx => addlog[r][f] = Singletons(AscSeq(PositionsOf(r)))

\* C8: for a fixed Index List the sequence of additions the feature kernel applies to
\* each cell is the same in every interleaving: per chunk in ascending chunk order, the
\* leader's sum folded in ascending warp order.
C8_DirectDeterminism ==
  FeatureDone =>
    \A r \in Rows, f \in Cols :
      addlog[r][f] = IF r = padding_idx THEN <<>> ELSE DirectOrder(r, 0)

\* C8 witness: a finished feature kernel where a leader folded two peers in one chunk
\* and the same row was added to again in the next chunk.
C8_Witness ==
  /\ FeatureDone
  /\ \E r \in Rows, f \in Cols :
       /\ Len(addlog[r][f]) >= 2
       /\ Len(addlog[r][f][1]) = BLOCKDIMY

(***************************************************************************)
(* Properties of embedding_renorm_cuda_, checked under SpecRenorm.         *)
(***************************************************************************)
Addressed == {indices[i] : i \in Pos}

\* The p-th power of the p-norm of a row: the sum of |x|^p over its elements.
RECURSIVE PNormPow(_, _)
PNormPow(row, k) ==
  IF k = 0 THEN <<0, 1>>
  ELSE RatAdd(PNormPow(row, k - 1),
              Rat(Pow(Abs(row[k - 1].x), norm_type) * row[k - 1].s[1], row[k - 1].s[2]))

WithinMaxNorm(row) == RatLeq(PNormPow(row, RDim), <<Pow(max_norm, norm_type), 1>>)

\* C5: one block is launched per distinct row of the Index List, also when equal
\* values are not adjacent, so no row is read and rescaled by two blocks.
C5_OneGroupPerRow ==
  (hpc \in {"renorm", "done"}) =>
    \A r \in Addressed : Cardinality({b \in DOMAIN unique_indices : unique_indices[b] = r}) = 1

\* C9: once embedding_renorm_cuda_ has returned, every row of the Index List has
\* p-norm at most max_norm, for p = 1, 2 and 3 and rows with negative elements.
C9_NormBound ==
  (hpc = "done" /\ kernel = "renorm") =>
    \A r \in Addressed : WithinMaxNorm(weight[r])

\* C10: embedding_renorm_cuda_ never changes an element of a row that is not in the
\* Index List, nor of a row whose p-norm was at most max_norm; every element it has
\* changed belongs to an addressed row whose computed norm exceeded max_norm.
C10_RenormFrame ==
  kernel = "renorm" =>
    \A r \in Rows :
      (weight[r] # weight0[r]) =>
        /\ r \in Addressed
        /\ ~WithinMaxNorm(weight0[r])
        /\ \E b \in DOMAIN rk : /\ unique_indices[b] = r
                                /\ rk[b].pc \in {"write", "done"}
                                /\ Exceeds(rk[b].v, norm_type, max_norm)

\* C10 witness: a returned call that rescaled one addressed row, left another addressed
\* row (already within max_norm) as it was, for a norm order other than 1 and 2.
C10_Witness ==
  /\ hpc = "done" /\ kernel = "renorm"
  /\ norm_type = 3
  /\ \E r1, r2 \in Addressed :
       /\ weight[r1] # weight0[r1]
       /\ WithinMaxNorm(weight0[r2]) /\ weight[r2] = weight0[r2]

(***************************************************************************)
(* Boundary checks and dispatch.                                           *)
(***************************************************************************)
\* weight0 is the table handed to embedding_renorm_cuda_; a call of
\* embedding_backward_cuda has none.
IsRenormCall == weight0 # <<>>
BackwardArgsValid ==
  args.indices_type = "Long" /\ args.indices_contiguous /\ args.same_gpu
RenormArgsValid ==
  args.self_contiguous /\ args.indices_contiguous /\ args.self_dim = 2 /\ args.same_gpu
NothingDone ==
  /\ kernel = "none"
  /\ grad_weight = <<>>
  /\ sorted_indices = <<>> /\ orig_indices = <<>> /\ count = NoCount
  /\ unique_indices = <<>>
  /\ fk = <<>> /\ bk = <<>> /\ rk = <<>>
  /\ weight = weight0

\* C11: in embedding_backward_cuda and in embedding_renorm_cuda_, when one of the
\* properties the function checks on entry is violated, the host function is either
\* still at its entry or has ended in an error, and nothing has been sorted, scanned,
\* made unique, allocated or launched: the Weight Table is as it was passed and no
\* gradient table exists.
C11_ChecksFirst ==
  (IF IsRenormCall THEN ~RenormArgsValid ELSE ~BackwardArgsValid) =>
    (hpc \in {"call", "rcall", "error"} /\ NothingDone)

\* C11 witness: embedding_renorm_cuda_ called with a weight that is not 2-dimensional
\* and a non-empty Index List naming a row whose norm exceeds max_norm; the call has
\* ended in an error and the table is untouched.
C11_Witness ==
  /\ IsRenormCall
  /\ hpc = "error"
  /\ args.self_dim # 2
  /\ args.self_contiguous /\ args.indices_contiguous /\ args.same_gpu
  /\ n > 0
  /\ NothingDone

\* C12: in both host functions, an Index List whose element type is not 64-bit
\* integer makes the call fail on entry: no step of the function reads the index
\* data (unique_copy, sort, kernel) and nothing is launched.
C12_IndexTypeEnforced ==
  args.indices_type # "Long" =>
    (hpc \in {"call", "rcall", "error"} /\ NothingDone)

\* C13 as stated: a kernel has been launched by embedding_backward_cuda only as
\* follows: the feature kernel when num_indices is below the threshold and frequency
\* scaling is off, the sorted kernel when num_indices is at or above the threshold or
\* scaling is on; never both.
C13_DispatchBelow ==
  /\ kernel = "feature" => (n < DIRECT_MAX /\ ~scale_grad_by_freq)
  /\ kernel = "sorted" => (n >= DIRECT_MAX \/ scale_grad_by_freq)
  /\ hpc \in {"sort", "scan1", "scan2", "launch", "sorted"} =>
       (n >= DIRECT_MAX \/ scale_grad_by_freq)
  /\ ~(fk # <<>> /\ bk # <<>>)

\* C13 amended: embedding_backward_cuda takes the direct path (feature kernel) exactly
\* when num_indices is at most the threshold, the threshold included, and frequency
\* scaling is off; in every other case it takes the sorted path; it never launches
\* both kernels, and a call that has returned has run exactly one of them.
C13_DispatchAtMost ==
  /\ (hpc = "direct" \/ kernel = "feature") => (n <= DIRECT_MAX /\ ~scale_grad_by_freq)
  /\ (hpc \in {"sort", "scan1", "scan2", "launch", "sorted"} \/ kernel = "sorted") =>
       (n > DIRECT_MAX \/ scale_grad_by_freq)
  /\ ~(fk # <<>> /\ bk # <<>>)
  /\ hpc = "done" => ((kernel = "feature" /\ bk = <<>>) \/ (kernel = "sorted" /\ fk = <<>>))

\* C13 witness: a returned call whose Index List has exactly the threshold number of
\* indices, without frequency scaling, which ran the feature kernel.
C13_Witness ==
  /\ FeatureDone
  /\ n = DIRECT_MAX
  /\ ~scale_grad_by_freq
  /\ bk = <<>>

(***************************************************************************)
(* Write counts, leader election and the scratch buffers.                  *)
(***************************************************************************)
\* addlog[r][f] has one entry per store to (feature kernel: per add into)
\* grad_weight[r][f], in the order they happened.
Writes(r, f) == Len(addlog[r][f])

\* C14 as stated: once embedding_backward_kernel has finished, every cell of a
\* non-padding row that occurs k >= 1 times in the Index List has been stored to
\* exactly once, whatever k is.
C14_OneWritePerRun ==
  SortedDone =>
    \A r \in Rows, f \in Cols :
      r # padding_idx => Writes(r, f) = (IF PositionsOf(r) = {} THEN 0 ELSE 1)

\* C14 amended: in embedding_backward_kernel every cell of a non-padding row that
\* occurs k times in the Index List is stored to once per member of its run: never
\* more than k times, and exactly k times once the kernel has finished.
C14_OneWritePerMember ==
  kernel = "sorted" =>
    \A r \in Rows, f \in Cols :
      r # padding_idx =>
        /\ Writes(r, f) <= Cardinality(PositionsOf(r))
        /\ hpc = "done" => Writes(r, f) = Cardinality(PositionsOf(r))

\* C14 witness: a finished sorted kernel where a non-padding row with a run of three
\* had each of its cells stored to three times, next to a row with a run of one.
C14_Witness ==
  /\ SortedDone
  /\ \E r \in Rows :
       /\ r # padding_idx
       /\ Cardinality(PositionsOf(r)) = 3
       /\ \A f \in Cols : Writes(r, f) = 3
  /\ \E r \in Rows :
       /\ r # padding_idx
       /\ Cardinality(PositionsOf(r)) = 1
       /\ \A f \in Cols : Writes(r, f) = 1

Targets(r, c) == {i \in Pos : ChunkOf(i) = c /\ indices[i] = r}
Leading(p) == fk[p].pc \in {"fold", "rmw_rd", "rmw_wr"}
SrcRow(p) == fk[p].chunk_start + p[2]

\* C15: in embedding_backward_feature_kernel, in every chunk (a final partial one
\* included) and for every non-padding row some position of the chunk selects, the
\* warp of the lowest such position, and no other, acts as leader, and it adds into
\* each cell grad_weight[row][f], f < stride, exactly once; the other matching warps
\* never write; a warp whose row no other position of the chunk selects leads itself.
C15_LeaderElection ==
  kernel = "feature" =>
    /\ \A p \in DOMAIN fk :
         Leading(p) =>
           /\ SrcRow(p) < n
           /\ indices[SrcRow(p)] # padding_idx
           /\ SrcRow(p) = Min(Targets(indices[SrcRow(p)], ChunkOf(SrcRow(p))))
    /\ \A r \in Rows, f \in Cols :
         \A k \in 1 .. Writes(r, f) :
           LET head == addlog[r][f][k][1]
           IN /\ r # padding_idx
              /\ head \in Pos /\ indices[head] = r
              /\ head = Min(Targets(r, ChunkOf(head)))
              /\ \A j \in 1 .. Writes(r, f) : j # k => addlog[r][f][j][1] # head
    /\ hpc = "done" =>
         \A r \in Rows, f \in Cols, c \in 0 .. ChunkOf(MaxN) :
           (r # padding_idx /\ Targets(r, c) # {}) =>
             \E k \in 1 .. Writes(r, f) : addlog[r][f][k][1] = Min(Targets(r, c))

\* C15 witness: a finished feature kernel whose first chunk has a non-padding row
\* selected by two positions and another selected by one, and whose final chunk is
\* partial with a non-padding row; each (row, chunk) was added exactly once.
C15_Witness ==
  /\ FeatureDone
  /\ n > BLOCKDIMY /\ n % BLOCKDIMY # 0
  /\ \E r1, r2, r3 \in Rows \ {padding_idx} :
       /\ r1 # r2
       /\ Cardinality(Targets(r1, 0)) = 2
       /\ Cardinality(Targets(r2, 0)) = 1
       /\ Targets(r3, 1) # {}
       /\ \A f \in Cols :
            /\ Writes(r1, f) = Cardinality({c \in 0 .. 1 : Targets(r1, c) # {}})
            /\ Writes(r2, f) = Cardinality({c \in 0 .. 1 : Targets(r2, c) # {}})

StagedFor(q, cs) ==
  fk[q].chunk_start = cs /\ fk[q].pc \in {"sync2", "wait2", "elect", "fold", "rmw_rd", "rmw_wr"}
HeldBeforeNext(q, cs) ==
  \/ fk[q].pc = "done"
  \/ fk[q].chunk_start = cs + BLOCKDIMY /\ fk[q].pc \in {"sync1", "wait1"}

\* C16: in every interleaving of the warps of a block of the feature kernel, while a
\* leader is folding or about to add its slot for chunk k, every other warp has
\* completed its staging for chunk k and has not begun staging for chunk k+1 (it is
\* at most waiting at the barrier before it); and while a leader folds, no warp whose
\* slot it still has to read is writing that slot.
C16_ScratchDiscipline ==
  \A p, q \in DOMAIN fk :
    (p # q /\ p[1] = q[1] /\ Leading(p)) =>
      /\ StagedFor(q, fk[p].chunk_start) \/ HeldBeforeNext(q, fk[p].chunk_start)
      /\ (fk[p].pc = "fold" /\ q[2] \in fk[p].mask) => fk[q].pc \notin {"stage", "fold"}

\* C16 witness: a leader is folding a peer's slot for the first chunk while another
\* warp of the block, done with that chunk, waits at the barrier before the staging
\* of the second chunk.
C16_Witness ==
  \E p, q \in DOMAIN fk :
    /\ p # q /\ p[1] = q[1]
    /\ fk[p].pc = "fold" /\ fk[p].mask # {} /\ fk[p].chunk_start = 0
    /\ fk[q].pc = "wait1" /\ fk[q].chunk_start = BLOCKDIMY

\* C17: when a block of renorm_kernel has finished reading a row nobody has rescaled,
\* the value it reduced (before the p-th root) is the sum over the row of |x|^p, for
\* p = 1, 2 and 3 and rows with negative elements.
C17_SumOfAbsPowers ==
  kernel = "renorm" =>
    \A b \in DOMAIN rk :
      (rk[b].pc \in {"write", "done"}
         /\ weight[unique_indices[b]] = weight0[unique_indices[b]]) =>
        rk[b].v = PNormPow(weight0[unique_indices[b]], RDim)

AtBarrier(p) == fk[p].pc \in {"sync1", "wait1", "sync2", "wait2"}
SameBarrier(p, q) ==
  /\ fk[p].chunk_start = fk[q].chunk_start
  /\ (fk[p].pc \in {"sync1", "wait1"}) = (fk[q].pc \in {"sync1", "wait1"})
BarrierUniform ==
  \A p, q \in DOMAIN fk :
    (p[1] = q[1] /\ AtBarrier(p)) =>
      /\ fk[q].pc # "done"
      /\ AtBarrier(q) => SameBarrier(p, q)

\* C18: for every Index List, stride and padding_idx the direct path accepts, the
\* warps of a block of the feature kernel go through the same sequence of barriers
\* (two warps at a barrier are at the same barrier of the same chunk, and no warp has
\* left the kernel while another is at a barrier), and once launched the kernel runs
\* to completion and the host returns.
C18_BarriersAndTermination ==
  /\ []BarrierUniform
  /\ (hpc = "direct") ~> (hpc = "done")

\* C18 witness: a finished feature kernel on a list of two chunks, the second partial
\* (warps past the end of the list), with padding_idx in the list and a stride below
\* WARP_SIZE (lanes whose feature is not a column).
C18_Witness ==
  /\ FeatureDone
  /\ n > BLOCKDIMY /\ n % BLOCKDIMY # 0
  /\ stride < WARP_SIZE
  /\ \E i \in Pos : indices[i] = padding_idx
  /\ \E i \in Pos : indices[i] # padding_idx

\* C19: for every Index List the dispatch sends to the feature kernel, each warp stays
\* in the first batch (batch_start = 0) and in chunks that start below num_indices,
\* every offset at which it reads or writes indices_batch is below the capacity
\* WARP_SIZE * BLOCKDIMY, and every index value that decides staging, enters the
\* match of a lane below n_this_chunk, or names the row of an add is the value of
\* indices at a position below num_indices, loaded in this batch.
C19_IndexScratchBounds ==
  \A p \in DOMAIN fk :
    LET w == fk[p]
        b == p[1]
        cs == w.chunk_start
        bs == w.batch_start
        src_row == cs + p[2]
        lanes == {tx \in Lanes : tx < NThisChunk(cs)}
    IN /\ bs = 0
       /\ w.pc # "done" => cs < n
       /\ MyS(p[2], WARP_SIZE - 1) < BatchCap
       /\ src_row - bs < BatchCap
       /\ (cs - bs) + (WARP_SIZE - 1) < BatchCap
       /\ (w.pc = "stage" /\ src_row < n) =>
            ReadBatch(indices_batch[b], src_row - bs) = Cell(indices[src_row])
       /\ (w.pc \in {"sync2", "wait2", "elect"} /\ src_row < n) =>
            w.dst_row = Cell(indices[src_row])
       /\ w.pc = "elect" =>
            \A tx \in lanes :
              /\ cs + tx < n
              /\ ReadBatch(indices_batch[b], (cs - bs) + tx) = Cell(indices[cs + tx])
       /\ Leading(p) => (src_row < n /\ w.dst_row = Cell(indices[src_row]))

\* C19 witness: a warp at the election of a final partial chunk, its own position
\* below num_indices and not padding, while the scratch entry of the last lane of the
\* chunk window was never loaded.
C19_Witness ==
  \E p \in DOMAIN fk :
    /\ fk[p].pc = "elect"
    /\ fk[p].chunk_start > 0
    /\ NThisChunk(fk[p].chunk_start) < BLOCKDIMY
    /\ SrcRow(p) < n
    /\ fk[p].dst_row # Cell(padding_idx)
    /\ ReadBatch(indices_batch[p[1]], fk[p].chunk_start + WARP_SIZE - 1) = Undef


====
